---- MODULE Spec2Model ----
(***************************************************************************)
(* bearingstoGPS: the bearing parser (utils/bearings_utils.py) and the     *)
(* traverse loop of the command-line script (bearingstogps.py).            *)
(*                                                                         *)
(* Text is a sequence of one-character strings.  Angles are exact          *)
(* fixed-point numbers in units of 1/36000 degree (one decimal digit of a  *)
(* seconds value); distances are in units of 1/100 foot.                   *)
(***************************************************************************)
EXTENDS Integers, Sequences, FiniteSets, TLC

\* ---------------------------------------------------------------- bounds
MaxRuns == 3        \* numeric runs written in the angle part of an input
MaxRecords == 3     \* data rows of the input table

\* ------------------------------------------------------- number encoding
\* fixed-point units per degree: 3600 seconds, each in tenths
Deg == 3600 * 10

\* ------------------------------------------------------ character classes
\* the class [SOUTHsouthEAeaWwNRnr] of bearing_pat
BearingChars ==
    {"S", "O", "U", "T", "H", "s", "o", "u", "t", "h",
     "E", "A", "e", "a", "W", "w", "N", "R", "n", "r"}

\* the class [\+\-\.0-9] of angle_pat
AngleChars ==
    {"+", "-", ".", "0", "1", "2", "3", "4", "5", "6", "7", "8", "9"}

Digits == {"0", "1", "2", "3", "4", "5", "6", "7", "8", "9"}

\* \s of the regular expressions and the characters str.strip() removes
Whitespace == {" ", "\t"}

Take(s, n) == SubSeq(s, 1, n)
Drop(s, n) == SubSeq(s, n + 1, Len(s))

\* length of the longest prefix of s made of characters of C (a greedy C*)
RunIn(s, C) ==
    CHOOSE n \in 0..Len(s) :
        /\ \A i \in 1..n : s[i] \in C
        /\ (n = Len(s) \/ s[n + 1] \notin C)

\* length of the longest prefix of s made of characters outside C ([^C]*)
RunNotIn(s, C) ==
    CHOOSE n \in 0..Len(s) :
        /\ \A i \in 1..n : s[i] \notin C
        /\ (n = Len(s) \/ s[n + 1] \in C)

\* str.strip(): leading and trailing whitespace removed
strip(s) ==
    LET a == RunIn(s, Whitespace)
        r == Drop(s, a)
        b == CHOOSE n \in 0..Len(r) :
                 /\ \A i \in (n + 1)..Len(r) : r[i] \in Whitespace
                 /\ (n = 0 \/ r[n] \notin Whitespace)
    IN  Take(r, b)

\* re.search(bearing_pat, s).groups(): every part of the pattern may match
\* the empty string, so the search matches at offset 0 and each greedy
\* star takes its longest run; text after the third group is not matched.
bearing_pat(s) ==
    LET n1 == RunIn(s, BearingChars)
        r1 == Drop(s, n1)
        r2 == Drop(r1, RunIn(r1, Whitespace))
        n2 == RunNotIn(r2, BearingChars)
        r3 == Drop(r2, n2)
        r4 == Drop(r3, RunIn(r3, Whitespace))
        n3 == RunIn(r4, BearingChars)
    IN  <<Take(s, n1), Take(r2, n2), Take(r4, n3)>>

\* re.search(angle_pat, s).groups()
angle_pat(s) ==
    LET n1 == RunIn(s, AngleChars)
        r1 == Drop(s, n1)
        r2 == Drop(r1, RunNotIn(r1, AngleChars))
        n2 == RunIn(r2, AngleChars)
        r3 == Drop(r2, n2)
        r4 == Drop(r3, RunNotIn(r3, AngleChars))
        n3 == RunIn(r4, AngleChars)
    IN  <<Take(s, n1), Take(r2, n2), Take(r4, n3)>>

startswith(s, c) == Len(s) > 0 /\ s[1] = c

DigitVal(c) ==
    CASE c = "0" -> 0 [] c = "1" -> 1 [] c = "2" -> 2 [] c = "3" -> 3
      [] c = "4" -> 4 [] c = "5" -> 5 [] c = "6" -> 6 [] c = "7" -> 7
      [] c = "8" -> 8 [] c = "9" -> 9

RECURSIVE DigitsVal(_)
DigitsVal(s) ==
    IF s = <<>> THEN 0
    ELSE DigitsVal(Take(s, Len(s) - 1)) * 10 + DigitVal(s[Len(s)])

RECURSIVE Pow10(_)
Pow10(k) == IF k = 0 THEN 1 ELSE 10 * Pow10(k - 1)

\* float(s) for a run of AngleChars: an optional sign, then digits with at
\* most one dot and at least one digit; anything else raises ValueError.
\* The value is returned in tenths (exact for at most one fraction digit).
float(s) ==
    LET signed == Len(s) > 0 /\ s[1] \in {"+", "-"}
        body == IF signed THEN Drop(s, 1) ELSE s
        dots == {i \in 1..Len(body) : body[i] = "."}
        ndig == Cardinality({i \in 1..Len(body) : body[i] \in Digits})
        valid == /\ \A i \in 1..Len(body) : body[i] \in Digits \cup {"."}
                 /\ Cardinality(dots) <= 1
                 /\ ndig >= 1
        dot == IF dots = {} THEN Len(body) + 1 ELSE CHOOSE i \in dots : TRUE
        whole == DigitsVal(Take(body, dot - 1))
        frac == Drop(body, dot)
        mag == whole * 10 + (DigitsVal(frac) * 10) \div Pow10(Len(frac))
    IN  IF valid
        THEN [ok |-> TRUE, val |-> IF signed /\ s[1] = "-" THEN 0 - mag ELSE mag]
        ELSE [ok |-> FALSE, val |-> 0]
\* ------------------------------------------------------------ parse_bearing
\* lines 36-44: the initial reference and base azimuth decoded from the
\* prefix (a W prefix is labelled "east" by the code, with base 270)
InitRef(init_str) ==
    IF startswith(init_str, "E") \/ startswith(init_str, "e")
    THEN [init |-> "east", bearing |-> 90 * Deg]
    ELSE IF startswith(init_str, "S") \/ startswith(init_str, "s")
    THEN [init |-> "south", bearing |-> 180 * Deg]
    ELSE IF startswith(init_str, "W") \/ startswith(init_str, "w")
    THEN [init |-> "east", bearing |-> 270 * Deg]
    ELSE [init |-> "north", bearing |-> 0]

\* Swing without the sign flip of a South reference swinging east
Swing_NoSouthFlip(dir_str, init, bearing) ==
    IF startswith(dir_str, "S") \/ startswith(dir_str, "s")
    THEN [dir |-> "south", bearing |-> bearing,
          angle_dir |-> IF init = "west" THEN -1 ELSE 1]
    ELSE IF startswith(dir_str, "N") \/ startswith(dir_str, "n")
    THEN IF init = "east"
         THEN [dir |-> "north", bearing |-> 360 * Deg, angle_dir |-> -1]
         ELSE [dir |-> "north", bearing |-> bearing, angle_dir |-> 1]
    ELSE IF startswith(dir_str, "W") \/ startswith(dir_str, "w")
    THEN [dir |-> "west", bearing |-> bearing,
          angle_dir |-> IF init = "north" THEN -1 ELSE 1]
    ELSE [dir |-> "east", bearing |-> bearing, angle_dir |-> 1]

\* Swing that keeps base 90 for an East reference swinging north
Swing_EastNorthBase(dir_str, init, bearing) ==
    IF startswith(dir_str, "S") \/ startswith(dir_str, "s")
    THEN [dir |-> "south", bearing |-> bearing,
          angle_dir |-> IF init = "west" THEN -1 ELSE 1]
    ELSE IF startswith(dir_str, "N") \/ startswith(dir_str, "n")
    THEN IF init = "east"
         THEN [dir |-> "north", bearing |-> bearing, angle_dir |-> -1]
         ELSE [dir |-> "north", bearing |-> bearing, angle_dir |-> 1]
    ELSE IF startswith(dir_str, "W") \/ startswith(dir_str, "w")
    THEN [dir |-> "west", bearing |-> bearing,
          angle_dir |-> IF init = "north" THEN -1 ELSE 1]
    ELSE [dir |-> "east", bearing |-> bearing,
          angle_dir |-> IF init = "south" THEN -1 ELSE 1]

\* lines 46-61: the swing direction decoded from the suffix, the sign of the
\* angle and the base azimuth (forced to 360 for an "east" reference
\* swinging north)
Swing(dir_str, init, bearing) ==
    IF startswith(dir_str, "S") \/ startswith(dir_str, "s")
    THEN [dir |-> "south", bearing |-> bearing,
          angle_dir |-> IF init = "west" THEN -1 ELSE 1]
    ELSE IF startswith(dir_str, "N") \/ startswith(dir_str, "n")
    THEN IF init = "east"
         THEN [dir |-> "north", bearing |-> 360 * Deg, angle_dir |-> -1]
         ELSE [dir |-> "north", bearing |-> bearing, angle_dir |-> 1]
    ELSE IF startswith(dir_str, "W") \/ startswith(dir_str, "w")
    THEN [dir |-> "west", bearing |-> bearing,
          angle_dir |-> IF init = "north" THEN -1 ELSE 1]
    ELSE [dir |-> "east", bearing |-> bearing,
          angle_dir |-> IF init = "south" THEN -1 ELSE 1]

\* AxisConflict with the two axes of the swing exchanged
AxisConflict_Inverted(init, dir) ==
    \/ (init = "south" \/ init = "north") /\ (dir = "west" \/ dir = "east")
    \/ (init = "west" \/ init = "east") /\ (dir = "south" \/ dir = "north")

\* AxisConflict that rejects the same direction but not the opposite one
AxisConflict_SameOnly(init, dir) == init = dir

\* lines 64-67: the condition of the "Cannot be the same or opposing" error
AxisConflict(init, dir) ==
    \/ (init = "south" \/ init = "north") /\ (dir = "south" \/ dir = "north")
    \/ (init = "west" \/ init = "east") /\ (dir = "west" \/ dir = "east")

\* AngleDiff with the seconds divided by 60 instead of 3600
AngleDiff_SecondsPer60(angle_str, angle_dir) ==
    LET angle_groups == angle_pat(angle_str)
        d == float(angle_groups[1])
        m == float(angle_groups[2])
        s == float(angle_groups[3])
        has(i) == angle_groups[i] # <<>>
    IN  IF (has(1) /\ ~d.ok) \/ (has(2) /\ ~m.ok) \/ (has(3) /\ ~s.ok)
        THEN [ok |-> FALSE, diff |-> 0]
        ELSE [ok |-> TRUE,
              diff |-> (IF has(1) THEN angle_dir * d.val * (Deg \div 10) ELSE 0)
                     + (IF has(2) THEN (angle_dir * m.val * (Deg \div 10)) \div 60 ELSE 0)
                     + (IF has(3) THEN (angle_dir * s.val * (Deg \div 10)) \div 60 ELSE 0)]

\* lines 73-94: degrees, minutes and seconds are the three groups of
\* angle_pat; each non-empty group goes through float() in that order and
\* the first one float() rejects raises.  The sum is in fixed-point units.
AngleDiff(angle_str, angle_dir) ==
    LET angle_groups == angle_pat(angle_str)
        d == float(angle_groups[1])
        m == float(angle_groups[2])
        s == float(angle_groups[3])
        has(i) == angle_groups[i] # <<>>
    IN  IF (has(1) /\ ~d.ok) \/ (has(2) /\ ~m.ok) \/ (has(3) /\ ~s.ok)
        THEN [ok |-> FALSE, diff |-> 0]
        ELSE [ok |-> TRUE,
              diff |-> (IF has(1) THEN angle_dir * d.val * (Deg \div 10) ELSE 0)
                     + (IF has(2) THEN (angle_dir * m.val * (Deg \div 10)) \div 60 ELSE 0)
                     + (IF has(3) THEN (angle_dir * s.val * (Deg \div 10)) \div 3600 ELSE 0)]

Return(b) == [status |-> "return", bearing |-> b, error |-> "none"]
Raise(exc, what) == [status |-> exc, bearing |-> 0, error |-> what]

\* Normalize without the range check after the adjustment
Normalize_NoRangeCheck(bearing) ==
    Return(IF bearing < 0 THEN bearing + 360 * Deg ELSE bearing)

\* Normalize that wraps a full turn to 0
Normalize_Wrap360(bearing) ==
    LET b == IF bearing < 0 THEN bearing + 360 * Deg ELSE bearing
    IN  IF b < 0 \/ b > 360 * Deg
        THEN Raise("ValueError", "Invalid bearing result")
        ELSE Return(b % (360 * Deg))

\* lines 101-107: one +360 for a negative value, then the range check
Normalize(bearing) ==
    LET b == IF bearing < 0 THEN bearing + 360 * Deg ELSE bearing
    IN  IF b < 0 \/ b > 360 * Deg
        THEN Raise("ValueError", "Invalid bearing result")
        ELSE Return(b)

parse_bearing(bearing_str) ==
    LET bearing_groups == bearing_pat(bearing_str)
        init_str == bearing_groups[1]
        angle_str == strip(bearing_groups[2])
        dir_str == bearing_groups[3]
        ref == InitRef(init_str)
        sw == Swing(dir_str, ref.init, ref.bearing)
        ang == AngleDiff(angle_str, sw.angle_dir)
    IN  IF AxisConflict(ref.init, sw.dir)
        THEN Raise("ValueError", "Invalid initial and directional cardinal directions")
        ELSE IF ~ang.ok
        THEN Raise("ValueError", "could not convert string to float")
        ELSE Normalize(sw.bearing + ang.diff)
\* ------------------------------------------------------ inputs of the parser
\* An input text is written as blank-separated tokens: a prefix word, the
\* numeric runs (each optionally followed by a unit mark, the first
\* optionally preceded by punctuation), a suffix word and trailing text.
\* A suffix is written only after a prefix or an angle part (a lone word is
\* a prefix), trailing text only after a suffix.
Prefixes ==
    {<<>>, <<"N">>, <<"S">>, <<"E">>, <<"W">>,
     <<"n", "o", "r", "t", "h">>, <<"w", "e", "s", "t">>}

Suffixes ==
    {<<>>, <<"N">>, <<"S">>, <<"E">>, <<"W">>,
     <<"e", "a", "s", "t">>, <<"s", "o", "u", "t", "h">>}

\* the numeric runs used, each with the number it denotes (in tenths) when
\* it denotes one
NumericRuns ==
    {[txt |-> <<"1", "0">>, ok |-> TRUE, tenths |-> 100],
     [txt |-> <<"7", "5">>, ok |-> TRUE, tenths |-> 750],
     [txt |-> <<"-", "5">>, ok |-> TRUE, tenths |-> -50],
     [txt |-> <<"1", ".", "5">>, ok |-> TRUE, tenths |-> 15],
     [txt |-> <<"4", "0", "0">>, ok |-> TRUE, tenths |-> 4000],
     [txt |-> <<"-">>, ok |-> FALSE, tenths |-> 0]}

Plain == [lead |-> <<>>, unit |-> <<>>]
Styles ==
    {Plain,
     [lead |-> <<>>, unit |-> <<"d">>],
     [lead |-> <<":">>, unit |-> <<>>]}

Trails == {<<>>, <<" ", "n", "o", "r", "t", "h">>}

RunSeqs == UNION {[1..k -> NumericRuns] : k \in 0..MaxRuns}

Run(txt, tenths) == [txt |-> txt, ok |-> TRUE, tenths |-> tenths]

\* the texts the documentation gives as examples
S_46_59_26_E ==
    [prefix |-> <<"S">>, style |-> Plain,
     runs |-> <<Run(<<"4", "6">>, 460), Run(<<"5", "9">>, 590), Run(<<"2", "6">>, 260)>>,
     suffix |-> <<"E">>, trail |-> <<>>]

No_letters_340_55_03 ==
    [prefix |-> <<>>, style |-> Plain,
     runs |-> <<Run(<<"3", "4", "0">>, 3400), Run(<<"5", "5">>, 550), Run(<<"0", "3">>, 30)>>,
     suffix |-> <<>>, trail |-> <<>>]

N_10_75_0_E ==
    [prefix |-> <<"N">>, style |-> Plain,
     runs |-> <<Run(<<"1", "0">>, 100), Run(<<"7", "5">>, 750), Run(<<"0">>, 0)>>,
     suffix |-> <<"E">>, trail |-> <<>>]

Bare_360 ==
    [prefix |-> <<>>, style |-> Plain,
     runs |-> <<Run(<<"3", "6", "0">>, 3600)>>,
     suffix |-> <<>>, trail |-> <<>>]

\* a unit written out as a word after the number
Worded == [lead |-> <<>>, unit |-> <<" ", "d", "e", "g", "r", "e", "e", "s">>]

N_22_W ==
    [prefix |-> <<"N">>, style |-> Plain,
     runs |-> <<Run(<<"2", "2">>, 220)>>,
     suffix |-> <<"W">>, trail |-> <<>>]

N_22_degrees_W == [N_22_W EXCEPT !.style = Worded]

N_22d_W == [N_22_W EXCEPT !.style = [lead |-> <<>>, unit |-> <<"d">>]]

ExampleShapes ==
    {S_46_59_26_E, No_letters_340_55_03, N_10_75_0_E, Bare_360,
     N_22_W, N_22_degrees_W, N_22d_W}

Shapes ==
    {sh \in [prefix : Prefixes, style : Styles, runs : RunSeqs,
             suffix : Suffixes, trail : Trails] :
        /\ sh.trail # <<>> => sh.suffix # <<>>
        /\ sh.suffix # <<>> =>
               sh.prefix # <<>> \/ sh.runs # <<>> \/ sh.style.lead # <<>>}
    \cup ExampleShapes

RECURSIVE JoinBlank(_)
JoinBlank(tokens) ==
    IF tokens = <<>> THEN <<>>
    ELSE IF Len(tokens) = 1 THEN tokens[1]
    ELSE tokens[1] \o <<" ">> \o JoinBlank(Tail(tokens))

Tokens(sh) ==
    LET word(w) == IF w = <<>> THEN <<>> ELSE <<w>>
        run(i) == (IF i = 1 THEN sh.style.lead ELSE <<>>)
                  \o sh.runs[i].txt \o sh.style.unit
    IN  word(sh.prefix)
        \o (IF sh.runs = <<>> THEN word(sh.style.lead)
            ELSE [i \in 1..Len(sh.runs) |-> run(i)])
        \o word(sh.suffix)

Render(sh) == JoinBlank(Tokens(sh)) \o sh.trail

\* ------------------------------------------------ inputs of the script
NoShape == [prefix |-> <<>>, style |-> Plain, runs |-> <<>>,
            suffix |-> <<>>, trail |-> <<>>]

\* header rows of the input table
HeaderRows ==
    {<<"bearing", "distance">>,
     <<"distance", "comment", "bearing">>,
     <<"Bearing", "distance">>,
     <<"bearing", "comment">>,
     <<"bearing", "distance", "distance">>,
     <<"Distance", "grade%">>}

\* header names with a "%" that is not the start of a "%s"
PercentNames == {"grade%"}

\* --distance-units / --units: absent (None) or one of the choices
UnitsArgs == {"None", "feet", "poles", "rods"}

\* bearing cells of the table: an empty cell, two bearings that parse and a
\* lone "E"
BearingCells ==
    {<<>>,
     <<"E">>,
     <<"N", " ", "1", "0", " ", "W">>,
     <<" ", "S", " ", "4", "6", " ", "5", "9", " ", "2", "6", " ", "E">>}

\* distance cells, in hundredths of the unit they are written in
DistanceCells == {570, 9500}

TableRows == [bearing : BearingCells, distance : DistanceCells]

Tables == UNION {[1..n -> TableRows] : n \in 0..MaxRecords}

Origin == [lat |-> 35, lon |-> -80]

\* ------------------------------------------------------------------- state
VARIABLES
    shape,          \* how the parser's argument was written (parser checks)
    bearing_str,    \* the argument of parse_bearing (script: line 85)
    result,         \* outcome of the parse_bearing call, "pending" before it
    args,           \* parsed command line: [units, lat, lon]
    infile,         \* the input table: [headers, rows]
    pc,             \* position of the script
    headers,        \* line 69
    data,           \* line 74
    points,         \* line 78
    stdout,         \* the lines printed so far
    row,            \* number of rows the loop has taken from data
    parsed,         \* the row numbers whose bearing went to parse_bearing
    raised          \* the exception that ended the script, or "none"

vars == <<shape, bearing_str, result, args, infile, pc, headers, data,
          points, stdout, row, parsed, raised>>

script_vars == <<args, infile, pc, headers, data, points, stdout, row,
                 parsed, raised>>

Pending == [status |-> "pending", bearing |-> 0, error |-> "none"]

\* --------------------------------------------------- the parser on its own
InitParse ==
    /\ shape \in Shapes
    /\ bearing_str = Render(shape)
    /\ result = Pending
    /\ args = [units |-> "None", lat |-> Origin.lat, lon |-> Origin.lon]
    /\ infile = [headers |-> <<>>, rows |-> <<>>]
    /\ pc = "parser"
    /\ headers = <<>>
    /\ data = <<>>
    /\ points = <<>>
    /\ stdout = <<>>
    /\ row = 0
    /\ parsed = <<>>
    /\ raised = "none"

CallParseBearing ==
    /\ pc = "parser"
    /\ result = Pending
    /\ result' = parse_bearing(bearing_str)
    /\ UNCHANGED <<shape, bearing_str>>
    /\ UNCHANGED script_vars

NextParse == CallParseBearing

SpecParse == InitParse /\ [][NextParse]_vars

\* ------------------------------------------------------------- the script
\* file_utils.py: _headers_are_not_unique
HasDuplicates(hdrs) ==
    \E i, k \in 1..Len(hdrs) : i # k /\ hdrs[i] = hdrs[k]

Contains(hdrs, name) == \E i \in 1..Len(hdrs) : hdrs[i] = name

\* file_utils.py: InfileError.__init__ appends "  Location: %s." and applies
\* the message to the location with the % operator; a "%" of the message
\* that starts no valid conversion makes that raise ValueError.
InfileError(exc, listed) ==
    IF \E i \in 1..Len(listed) : listed[i] \in PercentNames
    THEN "ValueError"
    ELSE exc

\* file_utils.py: InvalidHeaders.__init__ lists the missing and the
\* unexpected header names in its message
InvalidHeaders(hdrs, expected_headers) ==
    LET missing == SelectSeq(expected_headers, LAMBDA h : ~Contains(hdrs, h))
        unexpected == SelectSeq(hdrs, LAMBDA h : ~Contains(expected_headers, h))
    IN  InfileError("InvalidHeaders", missing \o unexpected)

\* file_utils.py: get_row_val for a text cell: stripped, and "" and "nan"
\* become None
get_row_val(cell) ==
    LET val == strip(cell)
    IN  IF val \in {<<>>, <<"n", "a", "n">>}
        THEN [none |-> TRUE, val |-> <<>>]
        ELSE [none |-> FALSE, val |-> val]

\* ToFeet that converts poles only
ToFeet_PolesOnly(distance, units) ==
    IF units = "poles"
    THEN (distance * 165) \div 10
    ELSE distance

\* lines 87-88, in hundredths of a foot
ToFeet(distance, units) ==
    IF units = "poles" \/ units = "rods"
    THEN (distance * 165) \div 10
    ELSE distance

\* geopy.Point(lat, lon); a point is held as the origin and the legs
\* travelled from it, so that destinations of different arguments differ
Point(lat, lon) == [lat |-> lat, lon |-> lon, legs |-> <<>>]

\* geopy.distance.geodesic(feet=distance).destination(start_point, bearing)
destination(start_point, bearing, distance) ==
    [start_point EXCEPT !.legs = Append(@, <<bearing, distance>>)]

HeaderLine == [text |-> "lon,lat,zero", point |-> Point(0, 0)]
PointLine(p) == [text |-> "{lon},{lat},0", point |-> p]

Init ==
    /\ shape = NoShape
    /\ bearing_str = <<>>
    /\ result = Pending
    /\ args \in [units : UnitsArgs, lat : {Origin.lat}, lon : {Origin.lon}]
    /\ infile \in [headers : HeaderRows, rows : Tables]
    /\ pc = "read_headers"
    /\ headers = <<>>
    /\ data = <<>>
    /\ points = <<>>
    /\ stdout = <<>>
    /\ row = 0
    /\ parsed = <<>>
    /\ raised = "none"

\* line 69
ReadHeaders ==
    /\ pc = "read_headers"
    /\ headers' = infile.headers
    /\ pc' = "check_headers"
    /\ UNCHANGED <<shape, bearing_str, result, args, infile, data, points,
                   stdout, row, parsed, raised>>

\* lines 71-72
CheckHeaders ==
    /\ pc = "check_headers"
    /\ IF ~Contains(headers, "bearing") \/ ~Contains(headers, "distance")
       THEN /\ raised' = InvalidHeaders(headers, <<"bearing", "distance">>)
            /\ pc' = "raised"
       ELSE /\ pc' = "read_data"
            /\ UNCHANGED raised
    /\ UNCHANGED <<shape, bearing_str, result, args, infile, headers, data,
                   points, stdout, row, parsed>>

\* line 74: read_from_file reads the rows and then validate_headers raises
\* DuplicateFileHeaders when a header name occurs twice
ReadData ==
    /\ pc = "read_data"
    /\ IF HasDuplicates(infile.headers)
       THEN /\ raised' = "DuplicateFileHeaders"
            /\ pc' = "raised"
            /\ UNCHANGED data
       ELSE /\ data' = infile.rows
            /\ pc' = "print_origin"
            /\ UNCHANGED raised
    /\ UNCHANGED <<shape, bearing_str, result, args, infile, headers,
                   points, stdout, row, parsed>>

\* lines 76-81
PrintOrigin ==
    /\ pc = "print_origin"
    /\ points' = <<Point(args.lat, args.lon)>>
    /\ stdout' = <<HeaderLine, PointLine(Point(args.lat, args.lon))>>
    /\ pc' = "loop"
    /\ UNCHANGED <<shape, bearing_str, result, args, infile, headers, data,
                   row, parsed, raised>>

\* the outcome of line 91 for the bearing cell of a row: parse_bearing(None)
\* raises TypeError in re.search
ParseCell(cell) ==
    IF get_row_val(cell).none
    THEN Raise("TypeError", "expected string or bytes-like object")
    ELSE parse_bearing(get_row_val(cell).val)

\* IterateAppend measuring every leg from the origin
IterateAppend_FromOrigin ==
    /\ pc = "loop"
    /\ row < Len(data)
    /\ LET distance == ToFeet(data[row + 1].distance, args.units)
           outcome == ParseCell(data[row + 1].bearing)
           start_point == points[1]
           end_point == destination(start_point, outcome.bearing, distance)
       IN  /\ outcome.status = "return"
           /\ bearing_str' = get_row_val(data[row + 1].bearing).val
           /\ result' = outcome
           /\ points' = Append(points, end_point)
           /\ stdout' = Append(stdout, PointLine(end_point))
    /\ row' = row + 1
    /\ parsed' = Append(parsed, row + 1)
    /\ UNCHANGED <<shape, args, infile, pc, headers, data, raised>>

\* lines 83-99, one iteration in which parse_bearing returns
IterateAppend ==
    /\ pc = "loop"
    /\ row < Len(data)
    /\ LET distance == ToFeet(data[row + 1].distance, args.units)
           outcome == ParseCell(data[row + 1].bearing)
           start_point == points[Len(points)]
           end_point == destination(start_point, outcome.bearing, distance)
       IN  /\ outcome.status = "return"
           /\ bearing_str' = get_row_val(data[row + 1].bearing).val
           /\ result' = outcome
           /\ points' = Append(points, end_point)
           /\ stdout' = Append(stdout, PointLine(end_point))
    /\ row' = row + 1
    /\ parsed' = Append(parsed, row + 1)
    /\ UNCHANGED <<shape, args, infile, pc, headers, data, raised>>

\* IterateRaise that skips the offending row and goes on
IterateRaise_SkipAndContinue ==
    /\ pc = "loop"
    /\ row < Len(data)
    /\ LET outcome == ParseCell(data[row + 1].bearing)
       IN  /\ outcome.status # "return"
           /\ bearing_str' = get_row_val(data[row + 1].bearing).val
           /\ result' = outcome
    /\ row' = row + 1
    /\ parsed' = Append(parsed, row + 1)
    /\ UNCHANGED <<shape, args, infile, pc, headers, data, points, stdout,
                   raised>>

\* lines 83-91, the iteration in which parse_bearing raises: the exception
\* is not caught and ends the script
IterateRaise ==
    /\ pc = "loop"
    /\ row < Len(data)
    /\ LET outcome == ParseCell(data[row + 1].bearing)
       IN  /\ outcome.status # "return"
           /\ bearing_str' = get_row_val(data[row + 1].bearing).val
           /\ result' = outcome
           /\ raised' = outcome.status
    /\ row' = row + 1
    /\ parsed' = Append(parsed, row + 1)
    /\ pc' = "raised"
    /\ UNCHANGED <<shape, args, infile, headers, data, points, stdout>>

\* the iterator of line 83 is exhausted
Finish ==
    /\ pc = "loop"
    /\ row = Len(data)
    /\ pc' = "done"
    /\ UNCHANGED <<shape, bearing_str, result, args, infile, headers, data,
                   points, stdout, row, parsed, raised>>

Next ==
    \/ ReadHeaders
    \/ CheckHeaders
    \/ ReadData
    \/ PrintOrigin
    \/ IterateAppend
    \/ IterateRaise
    \/ Finish

Spec == Init /\ [][Next]_vars

\* ------------------------------------------------- claims about the parser
Called == result # Pending

AxisError == "Invalid initial and directional cardinal directions"

\* the compass point a written word stands for (an absent word: the default)
CardinalOf(word, default) ==
    IF word = <<>> THEN default
    ELSE IF word[1] \in {"N", "n"} THEN "North"
    ELSE IF word[1] \in {"S", "s"} THEN "South"
    ELSE IF word[1] \in {"E", "e"} THEN "East"
    ELSE "West"

SameAxis(a, b) ==
    \/ a \in {"North", "South"} /\ b \in {"North", "South"}
    \/ a \in {"East", "West"} /\ b \in {"East", "West"}

\* d + m/60 + s/3600 of the first three written runs, in fixed-point units
WrittenAngle(runs) ==
    (IF Len(runs) >= 1 THEN runs[1].tenths * 3600 ELSE 0)
    + (IF Len(runs) >= 2 THEN runs[2].tenths * 60 ELSE 0)
    + (IF Len(runs) >= 3 THEN runs[3].tenths ELSE 0)

\* C1: every call of parse_bearing on a string either raises ValueError or
\* returns an azimuth between 0 and 360 inclusive; a value still out of
\* range after the single +360 adjustment is never returned.
C1_ResultInRange ==
    Called =>
        \/ result.status = "ValueError"
        \/ /\ result.status = "return"
           /\ result.bearing >= 0
           /\ result.bearing <= 360 * Deg

\* a negative angle was adjusted by +360 and returned in range
C1_Witness ==
    /\ bearing_str = <<"-", "5">>
    /\ result = Return(355 * Deg)

\* C2: a single cardinal letter alone parses to its base azimuth:
\* "N" to 0, "S" to 180, "E" to 90 and "W" to 270, none failing.
C2_CardinalWordAlone ==
    Called =>
        /\ bearing_str = <<"N">> => result = Return(0)
        /\ bearing_str = <<"S">> => result = Return(180 * Deg)
        /\ bearing_str = <<"E">> => result = Return(90 * Deg)
        /\ bearing_str = <<"W">> => result = Return(270 * Deg)

\* C3 as stated: "S 46 59 26 E" parses to within 1e-3 of 180.99056 degrees
\* (compared in hundredths of a fixed-point unit).
C3_Original ==
    Called /\ shape = S_46_59_26_E =>
        /\ result.status = "return"
        /\ result.bearing * 100 - 651566016 <= 3600
        /\ 651566016 - result.bearing * 100 <= 3600

\* C3 amended: "S 46 59 26 E" parses to within 1e-3 of 133.00944 degrees,
\* that is 180 - (46 + 59/60 + 26/3600): a South reference swinging east
\* subtracts the angle.
C3_Amended ==
    Called /\ shape = S_46_59_26_E =>
        /\ result.status = "return"
        /\ result.bearing * 100 - 478833984 <= 3600
        /\ 478833984 - result.bearing * 100 <= 3600

C3_Witness ==
    /\ bearing_str = <<"S", " ", "4", "6", " ", "5", "9", " ", "2", "6", " ", "E">>
    /\ result.status = "return"

C5_Original ==
    Called /\ bearing_str = <<"n", "o", "r", "t", "h", " ", "1", "0", " ",
                              "e", "a", "s", "t", " ", "n", "o", "r", "t", "h">> =>
        result = Raise("ValueError", AxisError)

\* C5 amended: "north 10 east north" does not fail; the word after the
\* swing direction is not read, north and east lie on different axes, and
\* the call returns 10.0.  "north 10 north" fails with the axis error.
C5_Amended ==
    /\ Called /\ bearing_str = <<"n", "o", "r", "t", "h", " ", "1", "0", " ",
                                 "e", "a", "s", "t", " ", "n", "o", "r", "t", "h">> =>
           result = Return(10 * Deg)
    /\ Called /\ bearing_str = <<"n", "o", "r", "t", "h", " ", "1", "0", " ", "N">> =>
           result = Raise("ValueError", AxisError)

C5_Witness ==
    /\ shape.prefix = <<"n", "o", "r", "t", "h">>
    /\ shape.suffix = <<"e", "a", "s", "t">>
    /\ shape.trail = <<" ", "n", "o", "r", "t", "h">>
    /\ Len(shape.runs) = 1
    /\ result = Return(10 * Deg)

Azimuth(i) == ParseCell(infile.rows[i].bearing)

Factor10(units) ==
    CASE units = "poles" -> 165
      [] units = "rods" -> 165
      [] units = "feet" -> 10
      [] units = "None" -> 10

DistanceInFeet(i) == (infile.rows[i].distance * Factor10(args.units)) \div 10

AllParse == \A i \in 1..Len(infile.rows) : Azimuth(i).status = "return"

UpTo(n) == [i \in 1..n |-> i]

C7_Chain ==
    pc \in {"loop", "done"} /\ AllParse =>
        /\ Len(points) = row + 1
        /\ points[1] = Point(args.lat, args.lon)
        /\ \A i \in 1..row :
               points[i + 1] =
                   destination(points[i], Azimuth(i).bearing, DistanceInFeet(i))
        /\ parsed = UpTo(row)
        /\ pc = "done" => row = Len(infile.rows)

C7_PointsKept ==
    \A i \in 1..Len(points) : Len(points') >= i /\ points'[i] = points[i]

\* C7: over n records that all parse the loop builds n + 1 points; the
\* first is the origin of --lat/--lon, each next one is the destination
\* from the previous point along the parsed bearing of the next record at
\* its distance in feet, records taken in input order and once each; after
\* k records there are k + 1 points and no earlier point ever changes.
C7_Traverse == []C7_Chain /\ [][C7_PointsKept]_vars

\* three records, all parsed, in rods
C7_Witness ==
    /\ pc = "done"
    /\ AllParse
    /\ Len(points) = 4
    /\ args.units = "rods"

FirstFailing(k) ==
    /\ k \in 1..Len(infile.rows)
    /\ Azimuth(k).status # "return"
    /\ \A i \in 1..(k - 1) : Azimuth(i).status = "return"

C8_Aborted ==
    /\ pc = "raised" /\ row >= 1 =>
           /\ FirstFailing(row)
           /\ raised = Azimuth(row).status
           /\ Len(points) = row
           /\ Len(stdout) = row + 1
           /\ stdout[1] = HeaderLine
           /\ stdout[2] = PointLine(Point(args.lat, args.lon))
           /\ \A i \in 1..(row - 1) : stdout[i + 2] = PointLine(points[i + 1])
           /\ parsed = UpTo(row)
    /\ pc \in {"loop", "done"} =>
           \A i \in 1..row : Azimuth(i).status = "return"

C8_Final ==
    /\ pc # "raised"
    /\ \A i \in 1..Len(stdout) : Len(stdout') >= i /\ stdout'[i] = stdout[i]

\* C8: when the bearing of record k is the first that fails to parse, the
\* script stops there: the header line, the origin line and the lines of
\* records 1..k-1 are printed and stay printed, record k adds no line and
\* no point, and no later record is parsed; nothing happens after the
\* failure.
C8_AbortAtFirstFailure == []C8_Aborted /\ [][C8_Final]_vars

\* the second record fails after the first was printed
C8_Witness ==
    /\ pc = "raised"
    /\ row = 2
    /\ Len(stdout) = 3
    /\ Len(infile.rows) = 3

MissingRequired ==
    ~Contains(infile.headers, "bearing") \/ ~Contains(infile.headers, "distance")

\* C9: a table whose header row lacks the exact name bearing or distance
\* makes the script fail with InvalidHeaders before any data row is read,
\* any bearing is parsed or any line is printed.
C9_InvalidHeadersFirst ==
    MissingRequired =>
        /\ pc \in {"read_headers", "check_headers", "raised"}
        /\ data = <<>> /\ parsed = <<>> /\ stdout = <<>> /\ points = <<>>
        /\ pc = "raised" => raised = "InvalidHeaders"

\* C10: the distance handed to the geodesic step for record i is the
\* record's distance times 1 (units feet or absent) or 16.5 (poles, rods),
\* applied once for each record.
C10_DistanceFactor ==
    \A i \in 1..(Len(points) - 1) :
        points[i + 1].legs[i][2] = DistanceInFeet(i)

\* two legs converted from rods
C10_Witness ==
    /\ args.units = "rods"
    /\ Len(points) = 3
    /\ points[3].legs[2][2] = (infile.rows[2].distance * 33) \div 2
    /\ points[3].legs[1][2] = (infile.rows[1].distance * 33) \div 2
\* ------------------------------------------- further claims about the parser
\* the numbers written in the text are all numbers and none is negative
RunsAreMagnitudes(runs) ==
    \A i \in 1..Len(runs) : runs[i].ok /\ runs[i].tenths >= 0

\* C11: a minutes or seconds component outside [0, 60] (the second or third
\* numeric run negative or above 60, as in "N 10 75 0 E") makes
\* parse_bearing fail with ValueError instead of returning an azimuth.
C11_MinutesSecondsRange ==
    ( /\ Called
      /\ shape.style.lead = <<>>
      /\ \A i \in 1..Len(shape.runs) : shape.runs[i].ok
      /\ \E i \in 2..3 :
             /\ i <= Len(shape.runs)
             /\ (shape.runs[i].tenths < 0 \/ shape.runs[i].tenths > 600) )
    => result.status = "ValueError"
\* C12 as stated: every returned azimuth lies in [0, 360); 360.0 itself is
\* never returned.
C12_Original ==
    Called /\ result.status = "return" =>
        result.bearing >= 0 /\ result.bearing < 360 * Deg

\* C12 amended: every returned azimuth lies in the closed range [0, 360];
\* 360.0 itself is returned for a bare "360" and for an East or West prefix
\* with a North suffix and no angle.
C12_Amended ==
    /\ Called /\ result.status = "return" =>
           result.bearing \in 0..(360 * Deg)
    /\ Called /\ shape = Bare_360 => result = Return(360 * Deg)
    /\ ( /\ Called
         /\ CardinalOf(shape.prefix, "North") \in {"East", "West"}
         /\ CardinalOf(shape.suffix, "East") = "North"
         /\ shape.runs = <<>> )
       => result = Return(360 * Deg)

\* the bare "360" was returned as 360.0
C12_Witness ==
    /\ bearing_str = <<"3", "6", "0">>
    /\ result = Return(360 * Deg)
\* C13: the numeric runs of the middle token are taken in order as degrees,
\* minutes and seconds whatever non-numeric text precedes or separates them
\* (":10" gives 10 degrees), and a fourth and later run is ignored; stated
\* for texts without cardinal letters, whose base is 0 and sign is +1.
C13_RunsInOrder ==
    ( /\ Called
      /\ shape.prefix = <<>> /\ shape.suffix = <<>>
      /\ Len(shape.runs) >= 1
      /\ RunsAreMagnitudes(shape.runs)
      /\ WrittenAngle(shape.runs) <= 360 * Deg )
    => result = Return(WrittenAngle(shape.runs))
\* C14: a prefix beginning with W or w and a suffix beginning with S or s
\* give sign -1 on base 270: the result is 270 - (d + m/60 + s/3600), so
\* "W 10 S" gives 260.
C14_WestSwingSouth ==
    ( /\ Called
      /\ CardinalOf(shape.prefix, "North") = "West"
      /\ CardinalOf(shape.suffix, "East") = "South"
      /\ shape.style \in Styles /\ shape.style.lead = <<>>
      /\ RunsAreMagnitudes(shape.runs)
      /\ WrittenAngle(shape.runs) <= 270 * Deg )
    => result = Return(270 * Deg - WrittenAngle(shape.runs))
\* base + sign * a for a reference and a swing on the other axis
Quadrant(ref, swing, a) ==
    CASE ref = "North" /\ swing = "East" -> a
      [] ref = "North" /\ swing = "West" -> IF a > 0 THEN 360 * Deg - a ELSE 0
      [] ref = "South" /\ swing = "East" -> 180 * Deg - a
      [] ref = "South" /\ swing = "West" -> 180 * Deg + a
      [] ref = "East" /\ swing = "South" -> 90 * Deg + a
      [] ref = "East" /\ swing = "North" -> 360 * Deg - a

C16_SeparatorsIgnored ==
    Called /\ shape.style.lead = <<>> =>
        result = parse_bearing(Render([shape EXCEPT !.style = Plain]))
====
